---- MODULE Spec2Model ----
(***************************************************************************)
(* StandupBot backend: the standups table, StandupService and the          *)
(* StandupsController in front of it; and the Angular frontend: AuthService *)
(* over localStorage, the frontend StandupService with its signals, and the *)
(* pages that call it.                                                     *)
(*                                                                         *)
(* Nullable values (string?, int?, bool?, BlockerStatus?, DateTime?) are   *)
(* sequences of length at most one: None is null, Some(v) is the value v.  *)
(* Strings are sequences of one-character strings.                         *)
(***************************************************************************)
EXTENDS Integers, Sequences, FiniteSets, Bags, TLC

VARIABLES standups, nextId, now, resp, pending,
          currentUser, storage,
          todayStandup, history, loading, error, hasSubmittedToday,
          http

\* AuthService._currentUser and localStorage[STORAGE_KEY]; the signals of the
\* frontend StandupService; the HTTP requests sent and not yet completed
clientVars ==
    <<currentUser, storage, todayStandup, history, loading, error,
      hasSubmittedToday, http>>

vars ==
    <<standups, nextId, now, resp, pending,
      currentUser, storage, todayStandup, history, loading, error,
      hasSubmittedToday, http>>

----------------------------------------------------------------------------
(* Bounds of the model *)

MaxNow == 2        \* last instant of the clock
TicksPerDay == 2   \* clock instants per UTC calendar date
MaxId == 2         \* rows the identity column hands out
MaxInFlight == 1   \* create requests that may be between their query and their insert
MaxCount == 2      \* largest count a history request names
MaxRequests == 2   \* HTTP requests the frontend may have in flight

----------------------------------------------------------------------------
(* Nullable values and strings *)

None == <<>>

Some(v) == <<v>>

\* string.IsNullOrWhiteSpace: null, empty, or white-space characters only
IsNullOrWhiteSpaceEmptyOnly(o) == o = None \/ Len(o[1]) = 0

IsNullOrWhiteSpace(o) == o = None \/ \A i \in 1..Len(o[1]) : o[1][i] = " "

\* DateOnly.FromDateTime(DateTime.UtcNow)
DateOf(t) == t \div TicksPerDay

BlockerStatus == {"New", "Critical", "Resolved"}

----------------------------------------------------------------------------
(* Seed data *)

SeedUsers ==
    << [id |-> 1, name |-> "Alice Johnson", role |-> "Lead",   teamId |-> 1],
       [id |-> 2, name |-> "Bob Smith",     role |-> "Member", teamId |-> 1],
       [id |-> 3, name |-> "Carol White",   role |-> "Member", teamId |-> 1],
       [id |-> 4, name |-> "David Brown",   role |-> "Member", teamId |-> 1],
       [id |-> 5, name |-> "Eve Davis",     role |-> "Member", teamId |-> 1] >>

Users == {SeedUsers[i] : i \in 1..Len(SeedUsers)}

\* the users that send requests: two seeded users and an id with no user row
UserIds == {SeedUsers[1].id, SeedUsers[2].id, Len(SeedUsers) + 1}

\* the users of the double submit: two seeded users
RaceUserIds == {SeedUsers[1].id, SeedUsers[2].id}

\* the callers of the API: a seeded user and an id with no user row
ApiUserIds == {SeedUsers[1].id, Len(SeedUsers) + 1}

\* the seeded team and an id with no team
TeamIds == {SeedUsers[1].teamId, SeedUsers[1].teamId + 1}

StandupIds == 1..(MaxId + 1)

----------------------------------------------------------------------------
(* Requests *)

TextA == <<"a">>
TextB == <<"b">>

CreateStandupRequest ==
    [jiraId : {TextA},
     taskDescription : {TextA},
     percentageComplete : {40, 101},
     hasBlocker : BOOLEAN,
     blockerDescription : {None, Some(<<>>), Some(<<" ">>), Some(<<"x">>)},
     nextTask : {TextA}]

\* a patch names no text field, one of them, or all three
UpdateStandupRequest ==
    {r \in [jiraId : {None, Some(TextB)},
            taskDescription : {None, Some(TextB)},
            percentageComplete : {None, Some(60), Some(101)},
            hasBlocker : {None, Some(TRUE), Some(FALSE)},
            blockerDescription : {None, Some(<<>>), Some(<<"y">>)},
            nextTask : {None, Some(TextB)}] :
        /\ Cardinality({f \in {"jiraId", "taskDescription", "nextTask"} : r[f] # None}) # 2
        /\ r.percentageComplete = Some(101) =>
              \A f \in {"jiraId", "taskDescription", "hasBlocker",
                        "blockerDescription", "nextTask"} : r[f] = None}

\* the requests of the scenarios of the specification: a standup without a
\* blocker, one with a blocker, one that lacks the description, and the
\* update of the percentage alone
DailyCreateRequest ==
    {r \in CreateStandupRequest :
        /\ r.percentageComplete = 40
        /\ \/ ~r.hasBlocker /\ r.blockerDescription = None
           \/ r.hasBlocker /\ r.blockerDescription \in {None, Some(<<"x">>)}}

\* the double submit: the same form, or one that lacks the description
RaceCreateRequest == {r \in DailyCreateRequest : r.blockerDescription = None}

DailyUpdateRequest ==
    {r \in UpdateStandupRequest :
        /\ r.jiraId = None /\ r.taskDescription = None /\ r.nextTask = None
        /\ r.percentageComplete = Some(60)
        /\ r.hasBlocker = None /\ r.blockerDescription = None}

\* [FromQuery] int count = 10
DefaultCount == 10

\* the count of a history request: absent, or a number
HistoryCounts == {None} \cup {Some(n) : n \in 0..MaxCount}

\* [FromQuery] DateOnly? date: absent, or a date the clock reaches
TeamDates == {None} \cup {Some(DateOf(t)) : t \in 0..MaxNow}

\* the percentages at and next to the ends of [Range(0, 100)]
BoundaryPercentages == {-1, 0, 100, 101}

\* bodies of the API: every boundary percentage, with and without a blocker
\* and its description
ApiCreateRequest ==
    [jiraId : {TextA},
     taskDescription : {TextA},
     percentageComplete : BoundaryPercentages,
     hasBlocker : BOOLEAN,
     blockerDescription : {None, Some(<<"x">>)},
     nextTask : {TextA}]

ApiUpdateRequest ==
    [jiraId : {None},
     taskDescription : {None},
     percentageComplete : {None} \cup {Some(p) : p \in BoundaryPercentages},
     hasBlocker : {None, Some(TRUE), Some(FALSE)},
     blockerDescription : {None},
     nextTask : {None}]

\* [Required]: not null, not empty, not white space only
Required(s) == ~IsNullOrWhiteSpace(Some(s))

\* [Range(0, 100)]
RangeExclusive(n) == 0 < n /\ n < 100

Range(n) == 0 <= n /\ n <= 100

\* [ApiController] model validation of the request body, before the action runs
ValidCreateModel(request) ==
    /\ Required(request.jiraId)
    /\ Required(request.taskDescription)
    /\ Range(request.percentageComplete)
    /\ Required(request.nextTask)

ValidUpdateModel(request) ==
    request.percentageComplete # None => Range(request.percentageComplete[1])

----------------------------------------------------------------------------
(* The standups table *)

\* FirstOrDefaultAsync(s => s.UserId == userId && s.Date == today)
FindByUserAndDateAnyDate(S, userId, today) ==
    LET found == {s \in S : s.userId = userId}
    IN IF found = {} THEN None ELSE Some(CHOOSE s \in found : TRUE)

FindByUserAndDate(S, userId, today) ==
    LET found == {s \in S : s.userId = userId /\ s.date = today}
    IN IF found = {} THEN None ELSE Some(CHOOSE s \in found : TRUE)

\* FirstOrDefaultAsync(s => s.Id == standupId)
FindById(S, standupId) ==
    LET found == {s \in S : s.id = standupId}
    IN IF found = {} THEN None ELSE Some(CHOOSE s \in found : TRUE)

\* the unique index on (user_id, date) and the foreign key user_id -> users.id
UniqueIndexAllowsNoIndex(S, standup) == TRUE

UniqueIndexAllows(S, standup) ==
    \A s \in S : ~(s.userId = standup.userId /\ s.date = standup.date)

ForeignKeyAllows(standup) == \E u \in Users : u.id = standup.userId

UserNameOf(userId) ==
    IF \E u \in Users : u.id = userId
    THEN (CHOOSE u \in Users : u.id = userId).name
    ELSE "Unknown"

MapToDto(standup) ==
    [id |-> standup.id,
     userId |-> standup.userId,
     userName |-> UserNameOf(standup.userId),
     date |-> standup.date,
     jiraId |-> standup.jiraId,
     taskDescription |-> standup.taskDescription,
     percentageComplete |-> standup.percentageComplete,
     hasBlocker |-> standup.hasBlocker,
     blockerDescription |-> standup.blockerDescription,
     blockerStatus |-> standup.blockerStatus,
     nextTask |-> standup.nextTask,
     createdAt |-> standup.createdAt,
     updatedAt |-> standup.updatedAt]

----------------------------------------------------------------------------
(* StandupService *)

ServiceResult(kind, dto) == [kind |-> kind, dto |-> dto]

\* GetTodayStandupAsync: today is DateTime.UtcNow.Date
GetTodayStandupAsyncThisInstant(S, t, userId) ==
    LET found == {s \in S : s.userId = userId /\ s.createdAt = t}
    IN IF found = {} THEN None ELSE Some(MapToDto(CHOOSE s \in found : TRUE))

GetTodayStandupAsync(S, t, userId) ==
    LET standup == FindByUserAndDate(S, userId, DateOf(t))
    IN IF standup = None THEN None ELSE Some(MapToDto(standup[1]))

\* CreateAsync up to the construction of the entity: the existence check, then
\* the blocker-description check
CreatePrecheckValidatesFirst(S, t, userId, request) ==
    IF request.hasBlocker /\ IsNullOrWhiteSpace(request.blockerDescription)
    THEN "ArgumentException"
    ELSE IF FindByUserAndDate(S, userId, DateOf(t)) # None
         THEN "InvalidOperationException"
         ELSE "Pass"

CreatePrecheck(S, t, userId, request) ==
    IF FindByUserAndDate(S, userId, DateOf(t)) # None
    THEN "InvalidOperationException"
    ELSE IF request.hasBlocker /\ IsNullOrWhiteSpace(request.blockerDescription)
         THEN "ArgumentException"
         ELSE "Pass"

\* new Standup { ... }; Id is assigned by the insert
NewStandupKeepsDescription(t, userId, request) ==
    [id |-> 0,
     userId |-> userId,
     date |-> DateOf(t),
     jiraId |-> request.jiraId,
     taskDescription |-> request.taskDescription,
     percentageComplete |-> request.percentageComplete,
     hasBlocker |-> request.hasBlocker,
     blockerDescription |-> request.blockerDescription,
     blockerStatus |-> IF request.hasBlocker THEN Some("New") ELSE None,
     nextTask |-> request.nextTask,
     createdAt |-> t,
     updatedAt |-> None]

NewStandup(t, userId, request) ==
    [id |-> 0,
     userId |-> userId,
     date |-> DateOf(t),
     jiraId |-> request.jiraId,
     taskDescription |-> request.taskDescription,
     percentageComplete |-> request.percentageComplete,
     hasBlocker |-> request.hasBlocker,
     blockerDescription |-> IF request.hasBlocker THEN request.blockerDescription ELSE None,
     blockerStatus |-> IF request.hasBlocker THEN Some("New") ELSE None,
     nextTask |-> request.nextTask,
     createdAt |-> t,
     updatedAt |-> None]

\* context.Standups.Add(standup); SaveChangesAsync: the insert fails on the
\* unique index or the foreign key, else the identity column numbers the row;
\* the User reference is loaded before the row is mapped
SaveNewStandupUserNotLoaded(S, nid, standup) ==
    IF UniqueIndexAllows(S, standup) /\ ForeignKeyAllows(standup)
    THEN LET row == [standup EXCEPT !.id = nid]
         IN [store |-> S \cup {row}, nextId |-> nid + 1,
             result |-> ServiceResult("Ok", Some([MapToDto(row) EXCEPT !.userName = "Unknown"]))]
    ELSE [store |-> S, nextId |-> nid,
          result |-> ServiceResult("DbUpdateException", None)]

SaveNewStandup(S, nid, standup) ==
    IF UniqueIndexAllows(S, standup) /\ ForeignKeyAllows(standup)
    THEN LET row == [standup EXCEPT !.id = nid]
         IN [store |-> S \cup {row}, nextId |-> nid + 1,
             result |-> ServiceResult("Ok", Some(MapToDto(row)))]
    ELSE [store |-> S, nextId |-> nid,
          result |-> ServiceResult("DbUpdateException", None)]

CreateAsync(S, nid, t, userId, request) ==
    LET check == CreatePrecheck(S, t, userId, request)
    IN IF check = "Pass"
       THEN SaveNewStandup(S, nid, NewStandup(t, userId, request))
       ELSE [store |-> S, nextId |-> nid, result |-> ServiceResult(check, None)]

\* UpdateAsync, "Apply updates (only non-null values)"
ApplyUpdatesAbsentBlockerIsFalse(standup, request) ==
    LET s1 == IF request.jiraId # None
              THEN [standup EXCEPT !.jiraId = request.jiraId[1]] ELSE standup
        s2 == IF request.taskDescription # None
              THEN [s1 EXCEPT !.taskDescription = request.taskDescription[1]] ELSE s1
        s3 == IF request.percentageComplete # None
              THEN [s2 EXCEPT !.percentageComplete = request.percentageComplete[1]] ELSE s2
        s4 == IF request.hasBlocker # None /\ request.hasBlocker[1]
              THEN [s3 EXCEPT !.hasBlocker = TRUE]
              ELSE [s3 EXCEPT !.hasBlocker = FALSE,
                              !.blockerDescription = None,
                              !.blockerStatus = None]
        s5 == IF request.blockerDescription # None /\ s4.hasBlocker
              THEN [s4 EXCEPT !.blockerDescription = request.blockerDescription] ELSE s4
        s6 == IF request.nextTask # None
              THEN [s5 EXCEPT !.nextTask = request.nextTask[1]] ELSE s5
    IN s6

ApplyUpdatesStartsEpisode(standup, request) ==
    LET s1 == IF request.jiraId # None
              THEN [standup EXCEPT !.jiraId = request.jiraId[1]] ELSE standup
        s2 == IF request.taskDescription # None
              THEN [s1 EXCEPT !.taskDescription = request.taskDescription[1]] ELSE s1
        s3 == IF request.percentageComplete # None
              THEN [s2 EXCEPT !.percentageComplete = request.percentageComplete[1]] ELSE s2
        s4 == IF request.hasBlocker # None
              THEN IF ~request.hasBlocker[1]
                   THEN [s3 EXCEPT !.hasBlocker = FALSE,
                                   !.blockerDescription = None,
                                   !.blockerStatus = None]
                   ELSE [s3 EXCEPT !.hasBlocker = TRUE,
                                   !.blockerStatus = IF s3.hasBlocker
                                                     THEN s3.blockerStatus
                                                     ELSE Some("New")]
              ELSE s3
        s5 == IF request.blockerDescription # None /\ s4.hasBlocker
              THEN [s4 EXCEPT !.blockerDescription = request.blockerDescription] ELSE s4
        s6 == IF request.nextTask # None
              THEN [s5 EXCEPT !.nextTask = request.nextTask[1]] ELSE s5
    IN s6

ApplyUpdatesDescriptionAlways(standup, request) ==
    LET s1 == IF request.jiraId # None
              THEN [standup EXCEPT !.jiraId = request.jiraId[1]] ELSE standup
        s2 == IF request.taskDescription # None
              THEN [s1 EXCEPT !.taskDescription = request.taskDescription[1]] ELSE s1
        s3 == IF request.percentageComplete # None
              THEN [s2 EXCEPT !.percentageComplete = request.percentageComplete[1]] ELSE s2
        s4 == IF request.hasBlocker # None
              THEN IF ~request.hasBlocker[1]
                   THEN [s3 EXCEPT !.hasBlocker = FALSE,
                                   !.blockerDescription = None,
                                   !.blockerStatus = None]
                   ELSE [s3 EXCEPT !.hasBlocker = TRUE]
              ELSE s3
        s5 == IF request.blockerDescription # None
              THEN [s4 EXCEPT !.blockerDescription = request.blockerDescription] ELSE s4
        s6 == IF request.nextTask # None
              THEN [s5 EXCEPT !.nextTask = request.nextTask[1]] ELSE s5
    IN s6

ApplyUpdates(standup, request) ==
    LET s1 == IF request.jiraId # None
              THEN [standup EXCEPT !.jiraId = request.jiraId[1]] ELSE standup
        s2 == IF request.taskDescription # None
              THEN [s1 EXCEPT !.taskDescription = request.taskDescription[1]] ELSE s1
        s3 == IF request.percentageComplete # None
              THEN [s2 EXCEPT !.percentageComplete = request.percentageComplete[1]] ELSE s2
        s4 == IF request.hasBlocker # None
              THEN IF ~request.hasBlocker[1]
                   THEN [s3 EXCEPT !.hasBlocker = FALSE,
                                   !.blockerDescription = None,
                                   !.blockerStatus = None]
                   ELSE [s3 EXCEPT !.hasBlocker = TRUE]
              ELSE s3
        s5 == IF request.blockerDescription # None /\ s4.hasBlocker
              THEN [s4 EXCEPT !.blockerDescription = request.blockerDescription] ELSE s4
        s6 == IF request.nextTask # None
              THEN [s5 EXCEPT !.nextTask = request.nextTask[1]] ELSE s5
    IN s6

\* UpdateAsync: the row is the one of (userId, today)
UpdateAsyncLatestRow(S, t, userId, request) ==
    LET mine == {s \in S : s.userId = userId}
    IN IF mine = {}
       THEN [store |-> S, result |-> ServiceResult("Null", None)]
       ELSE LET found == CHOOSE s \in mine : \A o \in mine : o.date <= s.date
                patched == ApplyUpdates(found, request)
            IN IF patched.hasBlocker /\ IsNullOrWhiteSpace(patched.blockerDescription)
               THEN [store |-> S, result |-> ServiceResult("ArgumentException", None)]
               ELSE LET saved == [patched EXCEPT !.updatedAt = Some(t)]
                    IN [store |-> (S \ {found}) \cup {saved},
                        result |-> ServiceResult("Ok", Some(MapToDto(saved)))]

UpdateAsyncSavesBeforeValidation(S, t, userId, request) ==
    LET found == FindByUserAndDate(S, userId, DateOf(t))
    IN IF found = None
       THEN [store |-> S, result |-> ServiceResult("Null", None)]
       ELSE LET patched == ApplyUpdates(found[1], request)
            IN IF patched.hasBlocker /\ IsNullOrWhiteSpace(patched.blockerDescription)
               THEN [store |-> (S \ {found[1]}) \cup {patched},
                     result |-> ServiceResult("ArgumentException", None)]
               ELSE LET saved == [patched EXCEPT !.updatedAt = Some(t)]
                    IN [store |-> (S \ {found[1]}) \cup {saved},
                        result |-> ServiceResult("Ok", Some(MapToDto(saved)))]

UpdateAsync(S, t, userId, request) ==
    LET found == FindByUserAndDate(S, userId, DateOf(t))
    IN IF found = None
       THEN [store |-> S, result |-> ServiceResult("Null", None)]
       ELSE LET patched == ApplyUpdates(found[1], request)
            IN IF patched.hasBlocker /\ IsNullOrWhiteSpace(patched.blockerDescription)
               THEN [store |-> S, result |-> ServiceResult("ArgumentException", None)]
               ELSE LET saved == [patched EXCEPT !.updatedAt = Some(t)]
                    IN [store |-> (S \ {found[1]}) \cup {saved},
                        result |-> ServiceResult("Ok", Some(MapToDto(saved)))]

\* UpdateBlockerStatusAsync: the row is looked up by id and written only when
\* it reports a blocker
UpdateBlockerStatusAsyncAnyRow(S, t, standupId, status) ==
    LET found == FindById(S, standupId)
    IN IF found = None
       THEN [store |-> S, result |-> ServiceResult("Null", None)]
       ELSE LET saved == [found[1] EXCEPT !.blockerStatus = Some(status),
                                          !.updatedAt = Some(t)]
            IN [store |-> (S \ {found[1]}) \cup {saved},
                result |-> ServiceResult("Ok", Some(MapToDto(saved)))]

UpdateBlockerStatusAsyncRemovesResolved(S, t, standupId, status) ==
    LET found == FindById(S, standupId)
    IN IF found = None \/ ~found[1].hasBlocker
       THEN [store |-> S, result |-> ServiceResult("Null", None)]
       ELSE LET saved == [found[1] EXCEPT !.blockerStatus = Some(status),
                                          !.updatedAt = Some(t)]
            IN [store |-> IF status = "Resolved"
                          THEN S \ {found[1]}
                          ELSE (S \ {found[1]}) \cup {saved},
                result |-> ServiceResult("Ok", Some(MapToDto(saved)))]

UpdateBlockerStatusAsyncResolvedIsFinal(S, t, standupId, status) ==
    LET found == FindById(S, standupId)
    IN IF found = None \/ ~found[1].hasBlocker
          \/ (found[1].blockerStatus = Some("Resolved") /\ status # "Resolved")
       THEN [store |-> S, result |-> ServiceResult("Null", None)]
       ELSE LET saved == [found[1] EXCEPT !.blockerStatus = Some(status),
                                          !.updatedAt = Some(t)]
            IN [store |-> (S \ {found[1]}) \cup {saved},
                result |-> ServiceResult("Ok", Some(MapToDto(saved)))]

UpdateBlockerStatusAsync(S, t, standupId, status) ==
    LET found == FindById(S, standupId)
    IN IF found = None \/ ~found[1].hasBlocker
       THEN [store |-> S, result |-> ServiceResult("Null", None)]
       ELSE LET saved == [found[1] EXCEPT !.blockerStatus = Some(status),
                                          !.updatedAt = Some(t)]
            IN [store |-> (S \ {found[1]}) \cup {saved},
                result |-> ServiceResult("Ok", Some(MapToDto(saved)))]

\* s.User!.TeamId
TeamIdOf(userId) == (CHOOSE u \in Users : u.id = userId).teamId

\* the position of a user's name in ascending order: the seeded names are
\* listed in that order
NameRank(userId) == CHOOSE i \in 1..Len(SeedUsers) : SeedUsers[i].id = userId

MapToSummaryDto(standup) ==
    [id |-> standup.id,
     userId |-> standup.userId,
     userName |-> UserNameOf(standup.userId),
     date |-> standup.date,
     jiraId |-> standup.jiraId,
     percentageComplete |-> standup.percentageComplete,
     hasBlocker |-> standup.hasBlocker,
     blockerStatus |-> standup.blockerStatus,
     createdAt |-> standup.createdAt]

\* new UserSummaryDto(u.Id, u.Name, u.Role)
UserSummaryDto(u) == [id |-> u.id, name |-> u.name, role |-> u.role]

\* OrderByDescending(s => s.Date)
RECURSIVE OrderByDescendingDate(_)
OrderByDescendingDate(rows) ==
    IF rows = {} THEN <<>>
    ELSE LET first == CHOOSE s \in rows : \A o \in rows : o.date <= s.date
         IN <<first>> \o OrderByDescendingDate(rows \ {first})

\* OrderBy(s => s.User!.Name)
RECURSIVE OrderByUserName(_)
OrderByUserName(rows) ==
    IF rows = {} THEN <<>>
    ELSE LET first == CHOOSE s \in rows :
                         \A o \in rows : NameRank(s.userId) <= NameRank(o.userId)
         IN <<first>> \o OrderByUserName(rows \ {first})

\* Take(count)
Take(list, count) ==
    SubSeq(list, 1, IF count < Len(list) THEN count ELSE Len(list))

Reverse(list) == [i \in 1..Len(list) |-> list[Len(list) + 1 - i]]

\* GetUserHistoryAsync
GetUserHistoryAsyncAscending(S, userId, count) ==
    LET rows == Take(Reverse(OrderByDescendingDate({s \in S : s.userId = userId})), count)
    IN [i \in 1..Len(rows) |-> MapToSummaryDto(rows[i])]

GetUserHistoryAsync(S, userId, count) ==
    LET rows == Take(OrderByDescendingDate({s \in S : s.userId = userId}), count)
    IN [i \in 1..Len(rows) |-> MapToSummaryDto(rows[i])]

\* GetTeamStandupsAsync
GetTeamStandupsAsyncAnyTeam(S, teamId, date) ==
    LET rows == OrderByUserName({s \in S : s.date = date})
    IN [i \in 1..Len(rows) |-> MapToDto(rows[i])]

GetTeamStandupsAsync(S, teamId, date) ==
    LET rows == OrderByUserName({s \in S : TeamIdOf(s.userId) = teamId /\ s.date = date})
    IN [i \in 1..Len(rows) |-> MapToDto(rows[i])]

\* HasSubmittedTodayAsync
HasSubmittedTodayAsyncAnyDate(S, t, userId) ==
    \E s \in S : s.userId = userId

HasSubmittedTodayAsync(S, t, userId) ==
    \E s \in S : s.userId = userId /\ s.date = DateOf(t)

\* GetTeamSubmissionStatusAsync: the members in the order of the users table
GetTeamSubmissionStatusAsyncAnyDate(S, t, teamId) ==
    LET teamMembers == SelectSeq(SeedUsers, LAMBDA u : u.teamId = teamId)
        submittedRows == {s \in S : TeamIdOf(s.userId) = teamId}
        submittedUserIds == {s.userId : s \in submittedRows}
        submitted == SelectSeq(teamMembers, LAMBDA u : u.id \in submittedUserIds)
        waiting == SelectSeq(teamMembers, LAMBDA u : u.id \notin submittedUserIds)
    IN [totalMembers |-> Len(teamMembers),
        submittedCount |-> Cardinality(submittedRows),
        submitted |-> [i \in 1..Len(submitted) |-> UserSummaryDto(submitted[i])],
        pending |-> [i \in 1..Len(waiting) |-> UserSummaryDto(waiting[i])]]

GetTeamSubmissionStatusAsync(S, t, teamId) ==
    LET teamMembers == SelectSeq(SeedUsers, LAMBDA u : u.teamId = teamId)
        submittedRows == {s \in S : TeamIdOf(s.userId) = teamId /\ s.date = DateOf(t)}
        submittedUserIds == {s.userId : s \in submittedRows}
        submitted == SelectSeq(teamMembers, LAMBDA u : u.id \in submittedUserIds)
        waiting == SelectSeq(teamMembers, LAMBDA u : u.id \notin submittedUserIds)
    IN [totalMembers |-> Len(teamMembers),
        submittedCount |-> Cardinality(submittedRows),
        submitted |-> [i \in 1..Len(submitted) |-> UserSummaryDto(submitted[i])],
        pending |-> [i \in 1..Len(waiting) |-> UserSummaryDto(waiting[i])]]

----------------------------------------------------------------------------
(* StandupsController: the response the caller receives *)

\* one exchange: the call, the request body, the HTTP status and the response body
Response(op, userId, request, status, body) ==
    [op |-> op, userId |-> userId, request |-> request, status |-> status, body |-> body]

\* try { Created } catch (InvalidOperationException) { Conflict }
\* catch (ArgumentException) { BadRequest }; anything else is unhandled
CreateStatusOtherIsConflict(kind) ==
    CASE kind = "Ok" -> 201
      [] kind = "ArgumentException" -> 400
      [] OTHER -> 409

CreateStatus(kind) ==
    CASE kind = "Ok" -> 201
      [] kind = "InvalidOperationException" -> 409
      [] kind = "ArgumentException" -> 400
      [] OTHER -> 500

\* try { null ? NotFound : Ok } catch (ArgumentException) { BadRequest }
UpdateStatus(kind) ==
    CASE kind = "Ok" -> 200
      [] kind = "Null" -> 404
      [] kind = "ArgumentException" -> 400
      [] OTHER -> 500

GetTodayStandup(userId) ==
    LET standup == GetTodayStandupAsync(standups, now, userId)
    IN /\ resp' = Response("getToday", userId, None,
                           IF standup = None THEN 404 ELSE 200, standup)
       /\ UNCHANGED <<standups, nextId, now, pending>>
       /\ UNCHANGED clientVars

Create(userId, request) ==
    /\ IF ~ValidCreateModel(request)
       THEN /\ resp' = Response("create", userId, Some(request), 400, None)
            /\ UNCHANGED <<standups, nextId>>
       ELSE LET r == CreateAsync(standups, nextId, now, userId, request)
            IN /\ r.nextId <= MaxId + 1
               /\ standups' = r.store
               /\ nextId' = r.nextId
               /\ resp' = Response("create", userId, Some(request),
                                   CreateStatus(r.result.kind), r.result.dto)
    /\ UNCHANGED <<now, pending>>
    /\ UNCHANGED clientVars

Update(userId, request) ==
    /\ IF ~ValidUpdateModel(request)
       THEN /\ resp' = Response("update", userId, Some(request), 400, None)
            /\ UNCHANGED standups
       ELSE LET r == UpdateAsync(standups, now, userId, request)
            IN /\ standups' = r.store
               /\ resp' = Response("update", userId, Some(request),
                                   UpdateStatus(r.result.kind), r.result.dto)
    /\ UNCHANGED <<nextId, now, pending>>
    /\ UNCHANGED clientVars

UpdateBlockerStatus(standupId, status) ==
    LET r == UpdateBlockerStatusAsync(standups, now, standupId, status)
    IN /\ standups' = r.store
       /\ resp' = Response("updateBlockerStatus", standupId, Some([status |-> status]),
                           IF r.result.dto = None THEN 404 ELSE 200, r.result.dto)
       /\ UNCHANGED <<nextId, now, pending>>
       /\ UNCHANGED clientVars

GetUserHistory(userId, count) ==
    LET standupList == GetUserHistoryAsync(standups, userId,
                                           IF count = None THEN DefaultCount ELSE count[1])
    IN /\ resp' = Response("getUserHistory", userId, Some([count |-> count]),
                           200, Some(standupList))
       /\ UNCHANGED <<standups, nextId, now, pending>>
       /\ UNCHANGED clientVars

GetTeamStandups(teamId, date) ==
    LET targetDate == IF date = None THEN DateOf(now) ELSE date[1]
        standupList == GetTeamStandupsAsync(standups, teamId, targetDate)
    IN /\ resp' = Response("getTeamStandups", teamId, Some([date |-> date]),
                           200, Some(standupList))
       /\ UNCHANGED <<standups, nextId, now, pending>>
       /\ UNCHANGED clientVars

GetSubmissionStatus(userId) ==
    LET hasSubmitted == HasSubmittedTodayAsync(standups, now, userId)
    IN /\ resp' = Response("getSubmissionStatus", userId, None,
                           200, Some([hasSubmittedToday |-> hasSubmitted]))
       /\ UNCHANGED <<standups, nextId, now, pending>>
       /\ UNCHANGED clientVars

GetTeamSubmissionStatus(teamId) ==
    LET status == GetTeamSubmissionStatusAsync(standups, now, teamId)
    IN /\ resp' = Response("getTeamSubmissionStatus", teamId, None, 200, Some(status))
       /\ UNCHANGED <<standups, nextId, now, pending>>
       /\ UNCHANGED clientVars

\* the UTC clock advances
Tick ==
    /\ now < MaxNow
    /\ now' = now + 1
    /\ UNCHANGED <<standups, nextId, resp, pending>>
    /\ UNCHANGED clientVars

----------------------------------------------------------------------------
(* Create requests in flight: each runs CreateAsync up to its insert, and   *)
(* the insert later, on its own DbContext. pending is the bag of entities  *)
(* built and not yet inserted.                                             *)

CreateBegin(userId, request) ==
    /\ BagCardinality(pending) < MaxInFlight
    /\ IF ~ValidCreateModel(request)
       THEN /\ resp' = Response("create", userId, Some(request), 400, None)
            /\ UNCHANGED pending
       ELSE LET check == CreatePrecheck(standups, now, userId, request)
            IN IF check = "Pass"
               THEN /\ pending' = pending (+) SetToBag({NewStandup(now, userId, request)})
                    /\ UNCHANGED resp
               ELSE /\ resp' = Response("create", userId, Some(request), CreateStatus(check), None)
                    /\ UNCHANGED pending
    /\ UNCHANGED <<standups, nextId, now>>
    /\ UNCHANGED clientVars

CreateSave(standup) ==
    /\ BagIn(standup, pending)
    /\ LET r == SaveNewStandup(standups, nextId, standup)
       IN /\ r.nextId <= MaxId + 1
          /\ standups' = r.store
          /\ nextId' = r.nextId
          /\ resp' = Response("create", standup.userId, None,
                              CreateStatus(r.result.kind), r.result.dto)
    /\ pending' = pending (-) SetToBag({standup})
    /\ UNCHANGED now
    /\ UNCHANGED clientVars

----------------------------------------------------------------------------
(* AuthService: the simulated session over localStorage *)

\* the ids of SAMPLE_USERS
SAMPLE_USERS == {1, 2, 3, 4, 5}

\* the users that log in
LoginUserIds == {1, 2}

Digits == <<"0", "1", "2", "3", "4", "5", "6", "7", "8", "9">>

IsDigit(c) == \E d \in 1..Len(Digits) : Digits[d] = c

DigitValue(c) == (CHOOSE d \in 1..Len(Digits) : Digits[d] = c) - 1

\* JSON.stringify of a non-negative integer: its decimal digits
RECURSIVE JSONStringify(_)
JSONStringify(n) ==
    IF n < Len(Digits)
    THEN <<Digits[n + 1]>>
    ELSE Append(JSONStringify(n \div Len(Digits)), Digits[(n % Len(Digits)) + 1])

RECURSIVE NumberValue(_)
NumberValue(text) ==
    IF text = <<>>
    THEN 0
    ELSE Len(Digits) * NumberValue(SubSeq(text, 1, Len(text) - 1))
            + DigitValue(text[Len(text)])

\* JSON.parse: a number without a leading zero, null, a string literal, or
\* a SyntaxError
JSONParse(text) ==
    IF /\ text # <<>>
       /\ \A i \in 1..Len(text) : IsDigit(text[i])
       /\ Len(text) > 1 => text[1] # "0"
    THEN [kind |-> "number", value |-> NumberValue(text)]
    ELSE IF text = <<"n", "u", "l", "l">>
         THEN [kind |-> "null", value |-> 0]
         ELSE IF /\ Len(text) > 1
                 /\ text[1] = "\"" /\ text[Len(text)] = "\""
                 /\ \A i \in 2..(Len(text) - 1) : text[i] \notin {"\"", "\\"}
              THEN [kind |-> "string", value |-> 0]
              ELSE [kind |-> "SyntaxError", value |-> 0]

\* values found under STORAGE_KEY: the empty string, ids of sample users, ids
\* of no user, text that is no JSON, null, an id as a string literal
StoredValues ==
    {<<>>, JSONStringify(2), JSONStringify(6), JSONStringify(12), <<"0", "1">>,
     <<"x">>, <<"n", "u", "l", "l">>, <<"\"", "1", "\"">>}

\* loadStoredUser: the user read, and the storage it leaves
loadStoredUserAnyNumber(stored) ==
    IF stored = None \/ stored[1] = <<>>
    THEN [user |-> None, storage |-> stored]
    ELSE LET userId == JSONParse(stored[1])
         IN IF userId.kind = "SyntaxError"
            THEN [user |-> None, storage |-> None]
            ELSE [user |-> IF userId.kind = "number"
                           THEN Some(userId.value) ELSE None,
                  storage |-> stored]

loadStoredUser(stored) ==
    IF stored = None \/ stored[1] = <<>>
    THEN [user |-> None, storage |-> stored]
    ELSE LET userId == JSONParse(stored[1])
         IN IF userId.kind = "SyntaxError"
            THEN [user |-> None, storage |-> None]
            ELSE [user |-> IF userId.kind = "number" /\ userId.value \in SAMPLE_USERS
                           THEN Some(userId.value) ELSE None,
                  storage |-> stored]

\* computed(() => this._currentUser() !== null)
isLoggedIn == currentUser # None

\* LoginPageComponent.login -> AuthService.login(user); the login route is
\* open to a visitor who is not logged in
login(user) ==
    /\ currentUser = None
    /\ currentUser' = Some(user)
    /\ storage' = Some(JSONStringify(user))
    /\ UNCHANGED <<todayStandup, history, loading, error, hasSubmittedToday, http>>
    /\ UNCHANGED <<standups, nextId, now, resp, pending>>

\* HeaderComponent.logout -> AuthService.logout()
logout ==
    /\ currentUser # None
    /\ currentUser' = None
    /\ storage' = None
    /\ UNCHANGED <<todayStandup, history, loading, error, hasSubmittedToday, http>>
    /\ UNCHANGED <<standups, nextId, now, resp, pending>>

\* the page is loaded anew: every service is constructed again, and the
\* requests of the page that was left are dropped
Reload ==
    /\ LET loaded == loadStoredUser(storage)
       IN /\ currentUser' = loaded.user
          /\ storage' = loaded.storage
    /\ todayStandup' = None
    /\ history' = <<>>
    /\ loading' = FALSE
    /\ error' = None
    /\ hasSubmittedToday' = FALSE
    /\ http' = EmptyBag
    /\ resp' = Response("none", 0, None, 0, None)
    /\ UNCHANGED <<standups, nextId, now, pending>>

\* the value under STORAGE_KEY is written from outside the page
StorageEdited(value) ==
    /\ storage' = Some(value)
    /\ UNCHANGED <<currentUser, todayStandup, history, loading, error,
                   hasSubmittedToday, http>>
    /\ UNCHANGED <<standups, nextId, now, resp, pending>>

----------------------------------------------------------------------------
(* The frontend StandupService and the pages that call it *)

\* the bodies the form emits: valid for Validators.required, which accepts
\* a description of white space; blockerDescription is left out without a
\* blocker
FormRequest ==
    {r \in CreateStandupRequest :
        /\ r.percentageComplete = 40
        /\ \/ ~r.hasBlocker /\ r.blockerDescription = None
           \/ r.hasBlocker /\ r.blockerDescription = Some(<<" ">>)}

\* the form without a blocker
PlainFormRequest == {r \in FormRequest : ~r.hasBlocker}

\* the form's body as the server binds it to UpdateStandupRequest
AsUpdateRequest(request) ==
    [jiraId |-> Some(request.jiraId),
     taskDescription |-> Some(request.taskDescription),
     percentageComplete |-> Some(request.percentageComplete),
     hasBlocker |-> Some(request.hasBlocker),
     blockerDescription |-> request.blockerDescription,
     nextTask |-> Some(request.nextTask)]

HttpRequest(op, userId, request) == [op |-> op, userId |-> userId, request |-> request]

\* the error property of the body: Conflict(new { error = ex.Message }) and
\* BadRequest(new { error = ex.Message }); NotFound() and a failure carry none
ErrorBody(kind) ==
    CASE kind = "InvalidOperationException" ->
            Some("Standup already submitted for today. Use update instead.")
      [] kind = "ArgumentException" ->
            Some("Blocker description is required when Has Blocker is checked.")
      [] OTHER -> None

\* HttpErrorResponse.message
HttpFailure(status) ==
    CASE status = 0 -> "Http failure response: 0 Unknown Error"
      [] status = 400 -> "Http failure response: 400 Bad Request"
      [] status = 404 -> "Http failure response: 404 Not Found"
      [] status = 409 -> "Http failure response: 409 Conflict"
      [] OTHER -> "Http failure response: 500 Internal Server Error"

\* error.error?.error || error.message
ErrorMessage(status, err) ==
    IF err # None /\ err[1] # "" THEN err[1] ELSE HttpFailure(status)

\* what the server does with a request and what it answers
Served(req) ==
    CASE req.op = "getToday" ->
            LET standup == GetTodayStandupAsync(standups, now, req.userId)
            IN [store |-> standups, nextId |-> nextId,
                status |-> IF standup = None THEN 404 ELSE 200,
                body |-> standup, error |-> None]
      [] req.op = "getUserHistory" ->
            [store |-> standups, nextId |-> nextId, status |-> 200,
             body |-> Some(GetUserHistoryAsync(standups, req.userId, req.request[1].count)),
             error |-> None]
      [] req.op = "getSubmissionStatus" ->
            [store |-> standups, nextId |-> nextId, status |-> 200,
             body |-> Some([hasSubmittedToday |->
                              HasSubmittedTodayAsync(standups, now, req.userId)]),
             error |-> None]
      [] req.op = "create" ->
            IF ~ValidCreateModel(req.request[1])
            THEN [store |-> standups, nextId |-> nextId, status |-> 400,
                  body |-> None, error |-> None]
            ELSE LET r == CreateAsync(standups, nextId, now, req.userId, req.request[1])
                 IN [store |-> r.store, nextId |-> r.nextId,
                     status |-> CreateStatus(r.result.kind),
                     body |-> r.result.dto, error |-> ErrorBody(r.result.kind)]
      [] req.op = "update" ->
            IF ~ValidUpdateModel(AsUpdateRequest(req.request[1]))
            THEN [store |-> standups, nextId |-> nextId, status |-> 400,
                  body |-> None, error |-> None]
            ELSE LET r == UpdateAsync(standups, now, req.userId,
                                      AsUpdateRequest(req.request[1]))
                 IN [store |-> r.store, nextId |-> nextId,
                     status |-> UpdateStatus(r.result.kind),
                     body |-> r.result.dto, error |-> ErrorBody(r.result.kind)]

\* StandupService.getTodayStandup: tap and catchError
getTodayStandupDone(status, body) ==
    IF status = 200
    THEN /\ todayStandup' = body
         /\ hasSubmittedToday' = TRUE
         /\ loading' = FALSE
         /\ UNCHANGED <<history, error>>
    ELSE IF status = 404
         THEN /\ todayStandup' = None
              /\ hasSubmittedToday' = FALSE
              /\ loading' = FALSE
              /\ UNCHANGED <<history, error>>
         ELSE /\ error' = Some(HttpFailure(status))
              /\ loading' = FALSE
              /\ UNCHANGED <<todayStandup, history, hasSubmittedToday>>

\* StandupService.getHistory: tap and catchError
getHistoryDone(status, body) ==
    IF status = 200
    THEN /\ history' = body[1]
         /\ loading' = FALSE
         /\ UNCHANGED <<todayStandup, error, hasSubmittedToday>>
    ELSE /\ error' = Some(HttpFailure(status))
         /\ loading' = FALSE
         /\ UNCHANGED <<todayStandup, history, hasSubmittedToday>>

\* StandupService.create: tap and catchError
createDoneRetries(req, status, body, err) ==
    IF status = 201
    THEN /\ todayStandup' = body
         /\ hasSubmittedToday' = TRUE
         /\ loading' = FALSE
         /\ http' = http (-) SetToBag({req})
         /\ UNCHANGED <<history, error>>
    ELSE /\ error' = Some(ErrorMessage(status, err))
         /\ UNCHANGED <<todayStandup, history, hasSubmittedToday, loading, http>>

createDone(req, status, body, err) ==
    IF status = 201
    THEN /\ todayStandup' = body
         /\ hasSubmittedToday' = TRUE
         /\ loading' = FALSE
         /\ http' = http (-) SetToBag({req})
         /\ UNCHANGED <<history, error>>
    ELSE /\ error' = Some(ErrorMessage(status, err))
         /\ loading' = FALSE
         /\ http' = http (-) SetToBag({req})
         /\ UNCHANGED <<todayStandup, history, hasSubmittedToday>>

\* StandupService.update: tap and catchError
updateDone(status, body, err) ==
    IF status = 200
    THEN /\ todayStandup' = body
         /\ loading' = FALSE
         /\ UNCHANGED <<history, error, hasSubmittedToday>>
    ELSE /\ error' = Some(ErrorMessage(status, err))
         /\ loading' = FALSE
         /\ UNCHANGED <<todayStandup, history, hasSubmittedToday>>

\* StandupService.checkSubmissionStatus: tap, and no catchError
checkSubmissionStatusDone(status, body) ==
    IF status = 200
    THEN /\ hasSubmittedToday' = body[1].hasSubmittedToday
         /\ UNCHANGED <<todayStandup, history, loading, error>>
    ELSE UNCHANGED <<todayStandup, history, loading, error, hasSubmittedToday>>

\* the callbacks of the pipe of a request, and the request leaving http
Done(req, status, body, err) ==
    CASE req.op = "getToday" ->
            getTodayStandupDone(status, body) /\ http' = http (-) SetToBag({req})
      [] req.op = "getUserHistory" ->
            getHistoryDone(status, body) /\ http' = http (-) SetToBag({req})
      [] req.op = "getSubmissionStatus" ->
            checkSubmissionStatusDone(status, body) /\ http' = http (-) SetToBag({req})
      [] req.op = "create" -> createDone(req, status, body, err)
      [] req.op = "update" ->
            updateDone(status, body, err) /\ http' = http (-) SetToBag({req})

\* TodayStandupPageComponent.ngOnInit -> loadTodayStandup
loadTodayStandup ==
    /\ currentUser # None
    /\ BagCardinality(http) < MaxRequests
    /\ loading' = TRUE
    /\ error' = None
    /\ http' = http (+) SetToBag({HttpRequest("getToday", currentUser[1], None)})
    /\ UNCHANGED <<currentUser, storage, todayStandup, history, hasSubmittedToday>>
    /\ UNCHANGED <<standups, nextId, now, resp, pending>>

\* HistoryPageComponent.ngOnInit -> loadHistory: getHistory(user.id, 10)
loadHistory ==
    /\ currentUser # None
    /\ BagCardinality(http) < MaxRequests
    /\ loading' = TRUE
    /\ http' = http (+) SetToBag({HttpRequest("getUserHistory", currentUser[1],
                                              Some([count |-> 10]))})
    /\ UNCHANGED <<currentUser, storage, todayStandup, history, error, hasSubmittedToday>>
    /\ UNCHANGED <<standups, nextId, now, resp, pending>>

\* DashboardPageComponent.ngOnInit -> checkSubmissionStatus
checkSubmissionStatus ==
    /\ currentUser # None
    /\ BagCardinality(http) < MaxRequests
    /\ http' = http (+) SetToBag({HttpRequest("getSubmissionStatus", currentUser[1], None)})
    /\ UNCHANGED <<currentUser, storage, todayStandup, history, loading, error,
                   hasSubmittedToday>>
    /\ UNCHANGED <<standups, nextId, now, resp, pending>>

\* TodayStandupPageComponent.onFormSubmit: update in edit mode, else create
onFormSubmitAlwaysCreates(request) ==
    /\ currentUser # None
    /\ BagCardinality(http) < MaxRequests
    /\ loading' = TRUE
    /\ error' = None
    /\ http' = http (+) SetToBag({HttpRequest("create", currentUser[1], Some(request))})
    /\ UNCHANGED <<currentUser, storage, todayStandup, history, hasSubmittedToday>>
    /\ UNCHANGED <<standups, nextId, now, resp, pending>>

onFormSubmit(request) ==
    /\ currentUser # None
    /\ BagCardinality(http) < MaxRequests
    /\ LET isEdit == todayStandup # None
       IN http' = http (+) SetToBag({HttpRequest(IF isEdit THEN "update" ELSE "create",
                                                 currentUser[1], Some(request))})
    /\ loading' = TRUE
    /\ error' = None
    /\ UNCHANGED <<currentUser, storage, todayStandup, history, hasSubmittedToday>>
    /\ UNCHANGED <<standups, nextId, now, resp, pending>>

\* the server handles a request and its response reaches the service
Responds(req) ==
    /\ BagIn(req, http)
    /\ LET served == Served(req)
       IN /\ served.nextId <= MaxId + 1
          /\ standups' = served.store
          /\ nextId' = served.nextId
          /\ resp' = Response(req.op, req.userId, req.request, served.status, served.body)
          /\ Done(req, served.status, served.body, served.error)
    /\ UNCHANGED <<now, pending, currentUser, storage>>

\* the request fails on the network, before or after the server handled it
Fails(req, handled) ==
    /\ BagIn(req, http)
    /\ LET served == Served(req)
       IN IF handled
          THEN /\ served.nextId <= MaxId + 1
               /\ standups' = served.store
               /\ nextId' = served.nextId
          ELSE UNCHANGED <<standups, nextId>>
    /\ resp' = Response(req.op, req.userId, req.request, 0, None)
    /\ Done(req, 0, None, None)
    /\ UNCHANGED <<now, pending, currentUser, storage>>

---------------------------------------------------------------------------------------------------------------------------------------------------
(* Specifications *)

Init ==
    /\ standups = {}
    /\ nextId = 1
    /\ now = 0
    /\ resp = Response("none", 0, None, 0, None)
    /\ pending = EmptyBag
    /\ currentUser = None
    /\ storage = None
    /\ todayStandup = None
    /\ history = <<>>
    /\ loading = FALSE
    /\ error = None
    /\ hasSubmittedToday = FALSE
    /\ http = EmptyBag

\* The daily requests of several users, served one at a time while the clock
\* runs over several dates
Next ==
    \/ \E u \in UserIds : GetTodayStandup(u)
    \/ \E u \in UserIds, request \in DailyCreateRequest : Create(u, request)
    \/ \E u \in UserIds, request \in DailyUpdateRequest : Update(u, request)
    \/ Tick

Spec == Init /\ [][Next]_vars

\* The requests of one user served one at a time within one instant, with
\* every request body
NextPatch ==
    \/ GetTodayStandup(SeedUsers[1].id)
    \/ \E request \in CreateStandupRequest : Create(SeedUsers[1].id, request)
    \/ \E request \in UpdateStandupRequest : Update(SeedUsers[1].id, request)
    \/ \E id \in StandupIds, status \in BlockerStatus : UpdateBlockerStatus(id, status)

SpecPatch == Init /\ [][NextPatch]_vars

\* Create requests whose query and insert interleave with each other, with
\* updates and with the clock
NextRace ==
    \/ \E u \in RaceUserIds, request \in RaceCreateRequest : CreateBegin(u, request)
    \/ \E standup \in BagToSet(pending) : CreateSave(standup)
    \/ \E u \in RaceUserIds, request \in RaceCreateRequest : Create(u, request)
    \/ \E u \in RaceUserIds, request \in DailyUpdateRequest : Update(u, request)
    \/ Tick

SpecRace == Init /\ [][NextRace]_vars

\* Every endpoint that writes and the read of today's standup, for a user
\* and for an unknown user id, with the bodies at the ends of the percentage
\* range, within one instant
NextApi ==
    \/ \E u \in ApiUserIds : GetTodayStandup(u)
    \/ \E u \in ApiUserIds, request \in ApiCreateRequest : Create(u, request)
    \/ \E u \in ApiUserIds, request \in ApiUpdateRequest : Update(u, request)
    \/ \E id \in StandupIds, status \in BlockerStatus : UpdateBlockerStatus(id, status)

SpecApi == Init /\ [][NextApi]_vars

\* The reads of the API over the standups that several users submit on
\* several dates
NextRead ==
    \/ \E u \in UserIds, request \in DailyCreateRequest : Create(u, request)
    \/ \E u \in UserIds : GetTodayStandup(u)
    \/ \E u \in UserIds, count \in HistoryCounts : GetUserHistory(u, count)
    \/ \E teamId \in TeamIds, date \in TeamDates : GetTeamStandups(teamId, date)
    \/ \E u \in UserIds : GetSubmissionStatus(u)
    \/ \E teamId \in TeamIds : GetTeamSubmissionStatus(teamId)
    \/ Tick

SpecRead == Init /\ [][NextRead]_vars

\* Every endpoint that writes, for one user while the clock runs over
\* several dates
NextRows ==
    \/ \E request \in DailyCreateRequest : Create(SeedUsers[1].id, request)
    \/ \E request \in DailyUpdateRequest : Update(SeedUsers[1].id, request)
    \/ \E id \in StandupIds, status \in BlockerStatus : UpdateBlockerStatus(id, status)
    \/ Tick

SpecRows == Init /\ [][NextRows]_vars

\* The simulated session: users log in and out and land on the dashboard,
\* the page is reloaded, and the stored value is edited
NextAuth ==
    \/ \E user \in LoginUserIds : login(user)
    \/ logout
    \/ Reload
    \/ \E value \in StoredValues : StorageEdited(value)
    \/ checkSubmissionStatus
    \/ \E req \in BagToSet(http) : Responds(req)

SpecAuth == Init /\ [][NextAuth]_vars

\* One user after another in one page: they log in, open the dashboard and
\* the standup page, submit the form and log out
NextSession ==
    \/ \E user \in LoginUserIds : login(user)
    \/ logout
    \/ loadTodayStandup
    \/ checkSubmissionStatus
    \/ \E request \in PlainFormRequest : onFormSubmit(request)
    \/ \E req \in BagToSet(http) : Responds(req)

SpecSession == Init /\ [][NextSession]_vars

\* One user on the standup page, in one session or several: they load
\* today's standup and submit the form, each request is answered or fails,
\* and the clock runs over several dates
NextPages ==
    \/ login(SeedUsers[1].id)
    \/ logout
    \/ loadTodayStandup
    \/ \E request \in FormRequest : onFormSubmit(request)
    \/ \E req \in BagToSet(http) : Responds(req)
    \/ \E req \in BagToSet(http), handled \in BOOLEAN : Fails(req, handled)
    \/ Tick

SpecPages == Init /\ [][NextPages]_vars

\* One user going from page to page within one instant: the requests of the
\* standup page and of the history page overlap
NextOverlap ==
    \/ login(SeedUsers[1].id)
    \/ loadTodayStandup
    \/ loadHistory
    \/ \E request \in PlainFormRequest : onFormSubmit(request)
    \/ \E req \in BagToSet(http) : Responds(req)
    \/ \E req \in BagToSet(http), handled \in BOOLEAN : Fails(req, handled)

SpecOverlap == Init /\ [][NextOverlap]_vars

----------------------------------------------------------------------------
(* Properties *)

\* the rows of a user on a date
RowsFor(S, userId, date) == {s \in S : s.userId = userId /\ s.date = date}

UserExists(userId) == userId \in {SeedUsers[i].id : i \in 1..Len(SeedUsers)}

\* a description that is null, empty or one blank
Blank(d) == d \in {None, Some(<<>>), Some(<<" ">>)}

\* a create body that passes the model validation and carries a description
\* when it reports a blocker
ValidCreate(request) ==
    /\ request.percentageComplete \in 0..100
    /\ request.hasBlocker => ~Blank(request.blockerDescription)

FirstUser == SeedUsers[1].id

\* the row UpdateAsync wrote in place of old
RowAfter(r, old) == CHOOSE s \in r.store : s.id = old.id

\* C1: the store never holds two rows for one (userId, date), whatever
\* requests were served, on whatever dates, and however create requests
\* interleave between their existence query and their insert.
C1_OneStandupPerUserAndDate ==
    \A s1, s2 \in standups :
        (s1.userId = s2.userId /\ s1.date = s2.date) => s1 = s2

\* a second insert for (userId, today) was refused while the user has a row
\* on two dates
C1_Witness ==
    /\ resp.op = "create" /\ resp.status = 500
    /\ RowsFor(standups, resp.userId, DateOf(now)) # {}
    /\ \E s1, s2 \in standups : s1.userId = s2.userId /\ s1.date # s2.date

\* C2: every stored row has hasBlocker true exactly when its description is
\* non-empty and its status non-null, and both null when hasBlocker is false.
C2_BlockerFieldsConsistent ==
    \A s \in standups :
        /\ s.hasBlocker <=> (/\ s.blockerDescription # None
                             /\ Len(s.blockerDescription[1]) > 0
                             /\ s.blockerStatus # None)
        /\ ~s.hasBlocker => (s.blockerDescription = None /\ s.blockerStatus = None)

\* C3 as stated: every valid create body sent when no row exists for
\* (userId, today) is answered 201, for any userId.
C3_ValidCreateSucceedsForAnyUser ==
    [][\A u \in UserIds, request \in DailyCreateRequest :
          (/\ ValidCreate(request)
           /\ RowsFor(standups, u, DateOf(now)) = {}
           /\ Create(u, request))
          => resp'.status = 201]_vars

\* C3 amended: a valid create body sent for an existing user when no row
\* exists for (userId, today) is answered 201 with the new row, and a
\* getTodayStandup of that user that follows on the same date with no write
\* in between returns the record create returned.
C3_CreateThenGetToday ==
    [][/\ \A u \in UserIds, request \in DailyCreateRequest :
            (/\ ValidCreate(request)
             /\ UserExists(u)
             /\ RowsFor(standups, u, DateOf(now)) = {}
             /\ Create(u, request))
            => (/\ resp'.status = 201
                /\ resp'.body # None
                /\ RowsFor(standups', u, DateOf(now)) # {}
                /\ resp'.body[1].id \notin {s.id : s \in standups})
       /\ (/\ resp.op = "create" /\ resp.status = 201
           /\ resp.body[1].date = DateOf(now)
           /\ GetTodayStandup(resp.userId))
          => (resp'.status = 200 /\ resp'.body = resp.body)]_vars

\* getTodayStandup returned a row that create wrote and nothing updated
C3_Witness ==
    /\ resp.op = "getToday" /\ resp.status = 200
    /\ resp.body[1].updatedAt = None
    /\ resp.body[1].hasBlocker
    /\ resp.body[1].date = DateOf(now)

\* C4: from every state in which a row exists for (userId, today), CreateAsync
\* throws the conflict for every body (the controller answers 409), inserts
\* nothing and leaves every row as it was.
C4_CreateConflictWritesNothing ==
    \A u \in UserIds, request \in CreateStandupRequest :
        RowsFor(standups, u, DateOf(now)) # {} =>
            LET r == CreateAsync(standups, nextId, now, u, request)
            IN /\ r.result.kind = "InvalidOperationException"
               /\ CreateStatus(r.result.kind) = 409
               /\ r.store = standups
               /\ r.nextId = nextId

\* a create with a blocker and no description was answered 409
C4_Witness ==
    /\ resp.op = "create" /\ resp.status = 409
    /\ resp.request[1].hasBlocker /\ resp.request[1].blockerDescription = None
    /\ RowsFor(standups, resp.userId, DateOf(now)) # {}

\* C5 as stated: a body with hasBlocker = true and an empty description fails
\* with the validation error in create and in update, in every state.
C5_EmptyDescriptionAlwaysValidation ==
    /\ \A request \in CreateStandupRequest :
          (request.hasBlocker /\ request.blockerDescription \in {None, Some(<<>>)})
          => CreateAsync(standups, nextId, now, FirstUser, request).result.kind
                = "ArgumentException"
    /\ \A request \in UpdateStandupRequest :
          (request.hasBlocker = Some(TRUE) /\ request.blockerDescription \in {None, Some(<<>>)})
          => UpdateAsync(standups, now, FirstUser, request).result.kind
                = "ArgumentException"

\* C5 amended: with hasBlocker = true and a blank description, create fails
\* with the validation error when no row exists for (userId, today) and with
\* the conflict when one exists; update returns not-found when no row exists,
\* fails with the validation error when the row exists and the description is
\* empty or is omitted on a row that has none, and succeeds when the
\* description is omitted on a row that has one.
C5_EmptyDescriptionValidation ==
    /\ \A request \in CreateStandupRequest :
          (request.hasBlocker /\ Blank(request.blockerDescription))
          => CreateAsync(standups, nextId, now, FirstUser, request).result.kind
                = IF RowsFor(standups, FirstUser, DateOf(now)) = {}
                  THEN "ArgumentException" ELSE "InvalidOperationException"
    /\ \A request \in UpdateStandupRequest :
          (request.hasBlocker = Some(TRUE) /\ Blank(request.blockerDescription))
          => LET rows == RowsFor(standups, FirstUser, DateOf(now))
                 r == UpdateAsync(standups, now, FirstUser, request)
             IN /\ r.result.kind =
                     IF rows = {} THEN "Null"
                     ELSE IF /\ request.blockerDescription = None
                             /\ \E s \in rows : ~Blank(s.blockerDescription)
                          THEN "Ok" ELSE "ArgumentException"
                /\ r.result.kind # "Ok" => r.store = standups

\* an update with hasBlocker = true and an empty description was answered 400
C5_Witness ==
    /\ resp.op = "update" /\ resp.status = 400
    /\ resp.request[1].hasBlocker = Some(TRUE)
    /\ resp.request[1].blockerDescription = Some(<<>>)
    /\ RowsFor(standups, resp.userId, DateOf(now)) # {}

\* C6: a create whose insert meets a row that another create stored after
\* its existence check is answered 409 and stores nothing.
C6_LostRaceIsConflict ==
    [][\A standup \in BagToSet(pending) :
          (/\ RowsFor(standups, standup.userId, standup.date) # {}
           /\ CreateSave(standup))
          => (resp'.status = 409 /\ standups' = standups)]_vars

PatchFields ==
    {"jiraId", "taskDescription", "percentageComplete", "hasBlocker",
     "blockerDescription", "nextTask"}

\* C7 as stated: a successful update leaves every field that the request
\* does not carry as it was (blockerStatus is never in the request), keeps
\* id, userId, date and createdAt, and sets updatedAt.
C7_UpdateChangesOnlyPresentFields ==
    \A request \in UpdateStandupRequest :
        LET rows == RowsFor(standups, FirstUser, DateOf(now))
            r == UpdateAsync(standups, now, FirstUser, request)
        IN (rows # {} /\ r.result.kind = "Ok") =>
              \A old \in rows :
                 LET new == RowAfter(r, old)
                 IN /\ \A f \in PatchFields : request[f] = None => new[f] = old[f]
                    /\ \A f \in {"id", "userId", "date", "createdAt", "blockerStatus"} :
                          new[f] = old[f]
                    /\ new.updatedAt = Some(now)

\* C7 amended: a successful update leaves every field that the request does
\* not carry as it was, except that a request with hasBlocker = false also
\* sets blockerDescription and blockerStatus to null; it gives jiraId,
\* taskDescription, percentageComplete, hasBlocker and nextTask the value the
\* request carries, keeps id, userId, date and createdAt, sets updatedAt,
\* touches no other row and returns the row it stored.
C7_UpdateIsPartialPatch ==
    \A request \in UpdateStandupRequest :
        LET rows == RowsFor(standups, FirstUser, DateOf(now))
            r == UpdateAsync(standups, now, FirstUser, request)
        IN (rows # {} /\ r.result.kind = "Ok") =>
              \A old \in rows :
                 LET new == RowAfter(r, old)
                     clears == request.hasBlocker = Some(FALSE)
                 IN /\ \A f \in PatchFields \ {"blockerDescription"} :
                          new[f] = IF request[f] = None THEN old[f] ELSE request[f][1]
                    /\ request.blockerDescription = None =>
                          new.blockerDescription =
                              IF clears THEN None ELSE old.blockerDescription
                    /\ new.blockerStatus = IF clears THEN None ELSE old.blockerStatus
                    /\ \A f \in {"id", "userId", "date", "createdAt"} : new[f] = old[f]
                    /\ new.updatedAt = Some(now)
                    /\ r.store \ {new} = standups \ {old}
                    /\ r.result.dto = Some(MapToDto(new))

\* update(userId, {percentageComplete: 60}) returned the row of a standup
\* that reports a blocker
C7_Witness ==
    /\ resp.op = "update" /\ resp.status = 200
    /\ resp.request[1].percentageComplete = Some(60)
    /\ \A f \in PatchFields \ {"percentageComplete"} : resp.request[1][f] = None
    /\ resp.body[1].percentageComplete = 60
    /\ resp.body[1].hasBlocker
    /\ resp.body[1].updatedAt # None

\* C8: an update that sets hasBlocker to false on an existing row succeeds and
\* leaves the row with hasBlocker false and blockerDescription and
\* blockerStatus null, whatever the row was and whatever description the
\* request supplies.
C8_HasBlockerFalseClears ==
    \A request \in UpdateStandupRequest :
        request.hasBlocker = Some(FALSE) =>
            LET rows == RowsFor(standups, FirstUser, DateOf(now))
                r == UpdateAsync(standups, now, FirstUser, request)
            IN rows # {} =>
                  /\ r.result.kind = "Ok"
                  /\ \A old \in rows :
                        LET new == RowAfter(r, old)
                        IN /\ ~new.hasBlocker
                           /\ new.blockerDescription = None
                           /\ new.blockerStatus = None
                  /\ r.result.dto[1].blockerDescription = None
                  /\ r.result.dto[1].blockerStatus = None

\* update(userId, {hasBlocker: false, blockerDescription: "y"}) returned a
\* row without description and status
C8_Witness ==
    /\ resp.op = "update" /\ resp.status = 200
    /\ resp.request[1].hasBlocker = Some(FALSE)
    /\ resp.request[1].blockerDescription = Some(<<"y">>)
    /\ resp.body[1].blockerDescription = None
    /\ resp.body[1].blockerStatus = None
    /\ \E s \in standups : s.id = resp.body[1].id /\ s.blockerDescription = None

\* C9: a create, update or updateBlockerStatus that is answered 400, 404 or
\* 409 leaves the table and the identity counter as they were, so a read
\* that follows returns what it returned before the call.
C9_FailedCallWritesNothing ==
    [][(/\ resp'.op \in {"create", "update", "updateBlockerStatus"}
        /\ resp'.status \in {400, 404, 409})
       => (/\ standups' = standups
           /\ nextId' = nextId
           /\ GetTodayStandupAsync(standups', now', FirstUser)
                 = GetTodayStandupAsync(standups, now, FirstUser))]_vars

\* an update that names a new jiraId and fails the blocker validation was
\* answered 400 and the row keeps its jiraId
C9_Witness ==
    /\ resp.op = "update" /\ resp.status = 400
    /\ resp.request[1].jiraId = Some(TextB)
    /\ resp.request[1].percentageComplete # Some(101)
    /\ \E s \in standups : s.userId = resp.userId /\ s.jiraId = TextA

\* C10: from every state in which no row exists for (userId, today),
\* UpdateAsync returns null for every body (the controller answers 404),
\* creates no row and leaves every row as it was.
C10_UpdateWithoutRowIsNotFound ==
    \A u \in UserIds, request \in UpdateStandupRequest :
        {s \in standups : s.userId = u /\ s.date = DateOf(now)} = {} =>
            LET r == UpdateAsync(standups, now, u, request)
            IN /\ r.result.kind = "Null"
               /\ UpdateStatus(r.result.kind) = 404
               /\ r.store = standups

\* an update was answered 404 while the user has a row of an earlier date and
\* another user has a row of today
C10_Witness ==
    /\ resp.op = "update" /\ resp.status = 404
    /\ \E s \in standups : s.userId = resp.userId /\ s.date < DateOf(now)
    /\ \E s \in standups : s.userId # resp.userId /\ s.date = DateOf(now)

\* C11: updateBlockerStatus on the id of a row that reports a blocker returns
\* that row with blockerStatus = status and updatedAt = now, every other field
\* and every other row as before; on an id with no row, or whose row has
\* hasBlocker false, it returns null (404) and the table is as before.
C11_UpdateBlockerStatusEffect ==
    \A id \in StandupIds, status \in BlockerStatus :
        LET rows == {s \in standups : s.id = id}
            r == UpdateBlockerStatusAsync(standups, now, id, status)
        IN IF \E s \in rows : s.hasBlocker
           THEN /\ r.result.kind = "Ok"
                /\ \A old \in rows :
                      LET new == [old EXCEPT !.blockerStatus = Some(status),
                                             !.updatedAt = Some(now)]
                      IN /\ r.store = (standups \ {old}) \cup {new}
                         /\ r.result.dto = Some(MapToDto(new))
           ELSE /\ r.result.kind = "Null"
                /\ r.result.dto = None
                /\ r.store = standups

\* updateBlockerStatus(id, Critical) returned the row with its description,
\* the new status and updatedAt
C11_Witness ==
    /\ resp.op = "updateBlockerStatus" /\ resp.status = 200
    /\ resp.request[1].status = "Critical"
    /\ resp.body[1].blockerStatus = Some("Critical")
    /\ resp.body[1].blockerDescription = Some(<<"x">>)
    /\ resp.body[1].updatedAt = Some(now)
    /\ \E s \in standups : s.id = resp.userId /\ s.blockerStatus = Some("Critical")

\* C12: a CreateAsync that succeeds adds exactly one row, for that user and
\* today's date, with an id no row had, the request's jiraId, task, percentage
\* and next task, blockerStatus New and the request's description when
\* hasBlocker is true, both null when it is false whatever description the
\* request carried, createdAt = now and updatedAt null, and returns that row.
C12_CreateStoresNewRow ==
    \A u \in UserIds, request \in CreateStandupRequest :
        LET r == CreateAsync(standups, nextId, now, u, request)
        IN r.result.kind = "Ok" =>
              \E row \in r.store :
                 /\ row \notin standups
                 /\ r.store = standups \cup {row}
                 /\ row.userId = u
                 /\ row.date = DateOf(now)
                 /\ row.id \notin {s.id : s \in standups}
                 /\ row.jiraId = request.jiraId
                 /\ row.taskDescription = request.taskDescription
                 /\ row.percentageComplete = request.percentageComplete
                 /\ row.nextTask = request.nextTask
                 /\ row.hasBlocker = request.hasBlocker
                 /\ row.blockerStatus = IF request.hasBlocker THEN Some("New") ELSE None
                 /\ row.blockerDescription =
                       IF request.hasBlocker THEN request.blockerDescription ELSE None
                 /\ row.createdAt = now
                 /\ row.updatedAt = None
                 /\ r.result.dto = Some(MapToDto(row))

\* a create with a blocker was answered 201 with a second row: a new id,
\* status New, the description, no updatedAt
C12_Witness ==
    /\ resp.op = "create" /\ resp.status = 201
    /\ resp.request[1].hasBlocker
    /\ resp.body[1].blockerStatus = Some("New")
    /\ resp.body[1].blockerDescription = resp.request[1].blockerDescription
    /\ resp.body[1].updatedAt = None
    /\ resp.body[1].createdAt = now
    /\ \E s1, s2 \in standups :
          /\ s1.id = resp.body[1].id /\ s1.date = DateOf(now)
          /\ s2.id < s1.id /\ ~s2.hasBlocker

\* C13: in every step, a row that comes to report a blocker (it is new, or it
\* had hasBlocker false) has blockerStatus New, and a row whose blockerStatus
\* is Critical or Resolved was, before the step, a row that reported a
\* blocker with a status (New, Critical or Resolved).
C13_BlockerEpisodeStartsNew ==
    [][\A new \in standups' :
          LET before == {old \in standups : old.id = new.id}
          IN /\ (new.hasBlocker /\ \A old \in before : ~old.hasBlocker)
                   => new.blockerStatus = Some("New")
             /\ new.blockerStatus \in {Some("Critical"), Some("Resolved")}
                   => \E old \in before : old.hasBlocker /\ old.blockerStatus # None]_vars

\* C14: for every row that reports a blocker, whatever its blockerStatus, and
\* every status of New, Critical and Resolved, UpdateBlockerStatusAsync
\* succeeds and the row then has that status.
C14_EveryStatusTransitionAllowed ==
    \A s \in standups, status \in BlockerStatus :
        s.hasBlocker =>
            LET r == UpdateBlockerStatusAsync(standups, now, s.id, status)
            IN /\ r.result.kind = "Ok"
               /\ r.result.dto # None
               /\ r.result.dto[1].id = s.id
               /\ r.result.dto[1].blockerStatus = Some(status)
               /\ \E new \in r.store : new.id = s.id /\ new.blockerStatus = Some(status)

\* updateBlockerStatus(id, Resolved) was answered 200 and the row is Resolved:
\* the state from which Resolved to New and Resolved to Resolved are asked
C14_Witness ==
    /\ resp.op = "updateBlockerStatus" /\ resp.status = 200
    /\ resp.request[1].status = "Resolved"
    /\ \E s \in standups :
          /\ s.id = resp.userId /\ s.hasBlocker
          /\ s.blockerStatus = Some("Resolved")
          /\ UpdateBlockerStatusAsync(standups, now, s.id, "New").result.kind = "Ok"

\* C15: the status of every response is the one of the outcome of the service
\* call: create 201 for a stored row, 409 for the conflict, 400 for the
\* validation error and none of 201, 400, 404, 409 for another failure; update
\* 200 for the returned row, 404 for null, 400 for the validation error;
\* updateBlockerStatus 200 for the returned row and 404 for null;
\* getTodayStandup 200 for a row and 404 for none.
C15_StatusCodeMapping ==
    [][LET u == resp'.userId
           request == resp'.request[1]
       IN /\ (resp'.op = "create" /\ ValidCreateModel(request)) =>
                LET kind == CreateAsync(standups, nextId, now, u, request).result.kind
                IN /\ resp'.status = 201 <=> kind = "Ok"
                   /\ resp'.status = 409 <=> kind = "InvalidOperationException"
                   /\ resp'.status = 400 <=> kind = "ArgumentException"
                   /\ kind \notin {"Ok", "InvalidOperationException", "ArgumentException"}
                         => resp'.status \notin {201, 400, 404, 409}
          /\ (resp'.op = "update" /\ ValidUpdateModel(request)) =>
                LET kind == UpdateAsync(standups, now, u, request).result.kind
                IN /\ resp'.status = 200 <=> kind = "Ok"
                   /\ resp'.status = 404 <=> kind = "Null"
                   /\ resp'.status = 400 <=> kind = "ArgumentException"
          /\ resp'.op = "updateBlockerStatus" =>
                LET kind == UpdateBlockerStatusAsync(standups, now, u, request.status).result.kind
                IN /\ resp'.status = 200 <=> kind = "Ok"
                   /\ resp'.status = 404 <=> kind = "Null"
                   /\ resp'.status \in {200, 404}
          /\ resp'.op = "getToday" =>
                /\ resp'.status = 200 <=> RowsFor(standups, u, DateOf(now)) # {}
                /\ resp'.status = 404 <=> RowsFor(standups, u, DateOf(now)) = {}]_vars

\* a create for a user id with no user row failed at the insert and was
\* answered 500, while a user has a row
C15_Witness ==
    /\ resp.op = "create" /\ resp.status = 500
    /\ ~UserExists(resp.userId)
    /\ resp.request[1].percentageComplete = 100
    /\ standups # {}

\* C16: create and update with percentageComplete -1 or 101 are answered 400
\* and leave the table as it was; create with 0 or 100 for a user without a
\* row today, and update with 0 or 100 of a row of today, store the
\* percentage when the blocker description is in order; every stored row has
\* a percentage from 0 to 100.
C16_PercentageBounds ==
    /\ [](\A s \in standups : 0 <= s.percentageComplete /\ s.percentageComplete <= 100)
    /\ [][LET u == resp'.userId
               request == resp'.request[1]
               rows == RowsFor(standups, u, DateOf(now))
           IN /\ resp'.op = "create" =>
                   IF request.percentageComplete \in {-1, 101}
                   THEN resp'.status = 400 /\ standups' = standups
                   ELSE (UserExists(u) /\ rows = {} /\ ValidCreate(request))
                        => /\ resp'.status = 201
                           /\ \E s \in RowsFor(standups', u, DateOf(now)) :
                                 s.percentageComplete = request.percentageComplete
              /\ (resp'.op = "update" /\ request.percentageComplete # None) =>
                   IF request.percentageComplete[1] \in {-1, 101}
                   THEN resp'.status = 400 /\ standups' = standups
                   ELSE (rows # {} /\ request.hasBlocker # Some(TRUE))
                        => /\ resp'.status = 200
                           /\ \A s \in RowsFor(standups', u, DateOf(now)) :
                                 s.percentageComplete = request.percentageComplete[1]]_vars

\* an update with percentageComplete -1 was answered 400 and the row keeps
\* the percentage 100 that an earlier update stored
C16_Witness ==
    /\ resp.op = "update" /\ resp.status = 400
    /\ resp.request[1].percentageComplete = Some(-1)
    /\ \E s \in RowsFor(standups, resp.userId, DateOf(now)) :
          s.percentageComplete = 100 /\ s.updatedAt # None

\* the elements of a list
Elements(list) == {list[i] : i \in 1..Len(list)}

\* C17: for every team id, the submitted and pending lists of
\* GetTeamSubmissionStatusAsync have no member in common and none twice,
\* together they are the members of the team, a member is in submitted
\* exactly when HasSubmittedTodayAsync is true for it (a row exists for it
\* today), totalMembers is the number of members and submittedCount the
\* length of submitted.
C17_TeamStatusPartitionsMembers ==
    \A teamId \in TeamIds :
        LET status == GetTeamSubmissionStatusAsync(standups, now, teamId)
            members == {u \in Users : u.teamId = teamId}
        IN /\ Elements(status.submitted) \cap Elements(status.pending) = {}
           /\ Elements(status.submitted) \cup Elements(status.pending)
                 = {UserSummaryDto(u) : u \in members}
           /\ Len(status.submitted) = Cardinality(Elements(status.submitted))
           /\ Len(status.pending) = Cardinality(Elements(status.pending))
           /\ \A u \in members :
                 /\ UserSummaryDto(u) \in Elements(status.submitted)
                       <=> HasSubmittedTodayAsync(standups, now, u.id)
                 /\ UserSummaryDto(u) \in Elements(status.submitted)
                       <=> RowsFor(standups, u.id, DateOf(now)) # {}
           /\ status.totalMembers = Cardinality(members)
           /\ status.submittedCount = Len(status.submitted)

\* getTeamSubmissionStatus(1) returned 5 members, 1 submitted and 4 pending
\* while another member has a row of an earlier date
C17_Witness ==
    /\ resp.op = "getTeamSubmissionStatus" /\ resp.userId = SeedUsers[1].teamId
    /\ resp.body[1].totalMembers = 5
    /\ resp.body[1].submittedCount = 1
    /\ Len(resp.body[1].submitted) = 1
    /\ Len(resp.body[1].pending) = 4
    /\ \E s \in standups :
          s.date < DateOf(now) /\ s.userId # resp.body[1].submitted[1].id

\* C18: for every user id, HasSubmittedTodayAsync is true exactly when a row
\* exists for (userId, today), exactly when GetTodayStandupAsync returns a
\* row, and exactly when CreateAsync throws the conflict, whatever the body.
C18_HasSubmittedIffRowToday ==
    \A u \in UserIds :
        LET hasSubmitted == HasSubmittedTodayAsync(standups, now, u)
        IN /\ hasSubmitted <=> RowsFor(standups, u, DateOf(now)) # {}
           /\ hasSubmitted <=> GetTodayStandupAsync(standups, now, u) # None
           /\ \A request \in CreateStandupRequest :
                 hasSubmitted <=>
                    CreateAsync(standups, nextId, now, u, request).result.kind
                       = "InvalidOperationException"

\* the submission status of a user who submitted on an earlier date and not
\* today was answered false
C18_Witness ==
    /\ resp.op = "getSubmissionStatus" /\ resp.status = 200
    /\ ~resp.body[1].hasSubmittedToday
    /\ \E s \in standups : s.userId = resp.userId /\ s.date < DateOf(now)
    /\ \E s \in standups : s.userId # resp.userId /\ s.date = DateOf(now)

\* C19: for every user id and count, GetUserHistoryAsync returns summaries of
\* rows of that user only, each once, in strictly descending date order, as
\* many as the smaller of count and the number of the user's rows, and every
\* row of the user it leaves out is dated before every row it returns; a
\* getUserHistory request that names no count is answered as with count 10.
C19_HistoryIsMostRecentRows ==
    /\ [](\A u \in UserIds, count \in 0..MaxCount :
            LET summaries == GetUserHistoryAsync(standups, u, count)
                mine == {s \in standups : s.userId = u}
                returned == {s \in mine : MapToSummaryDto(s) \in Elements(summaries)}
            IN /\ \A i \in 1..Len(summaries) :
                     /\ summaries[i].userId = u
                     /\ \E s \in mine : MapToSummaryDto(s) = summaries[i]
               /\ \A i, j \in 1..Len(summaries) :
                     i < j => summaries[i].date > summaries[j].date
               /\ Len(summaries) = IF count < Cardinality(mine)
                                 THEN count ELSE Cardinality(mine)
               /\ Cardinality(returned) = Len(summaries)
               /\ \A omitted \in mine \ returned, s \in returned :
                     omitted.date < s.date)
    /\ [][resp'.op = "getUserHistory" =>
             LET count == resp'.request[1].count
             IN /\ resp'.status = 200
                /\ resp'.body[1] = GetUserHistoryAsync(standups, resp'.userId,
                                       IF count = None THEN 10 ELSE count[1])]_vars

\* getUserHistory(userId, 1) returned the later of the two rows of the user
C19_Witness ==
    /\ resp.op = "getUserHistory" /\ resp.request[1].count = Some(1)
    /\ Len(resp.body[1]) = 1
    /\ resp.body[1][1].date = DateOf(now)
    /\ \E s \in standups : s.userId = resp.userId /\ s.date < resp.body[1][1].date

\* the seeded names in ascending order
NamesAscending ==
    <<"Alice Johnson", "Bob Smith", "Carol White", "David Brown", "Eve Davis">>

NamePosition(name) == CHOOSE k \in 1..Len(NamesAscending) : NamesAscending[k] = name

\* C20: for every team id and date, GetTeamStandupsAsync returns, each once,
\* exactly the rows of that date whose user is a member of the team, in
\* ascending order of the user's name.
C20_TeamStandupsOfDate ==
    \A teamId \in TeamIds, t \in 0..MaxNow :
        LET date == DateOf(t)
            list == GetTeamStandupsAsync(standups, teamId, date)
            expected == {s \in standups :
                            /\ s.date = date
                            /\ \E u \in Users : u.id = s.userId /\ u.teamId = teamId}
        IN /\ Elements(list) = {MapToDto(s) : s \in expected}
           /\ Len(list) = Cardinality(expected)
           /\ \A i, j \in 1..Len(list) :
                 i < j => NamePosition(list[i].userName) < NamePosition(list[j].userName)

\* getTeamStandups(1, today) returned the rows of two members, the row of
\* the member whose name comes first ahead of a row submitted before it
C20_Witness ==
    /\ resp.op = "getTeamStandups" /\ resp.userId = SeedUsers[1].teamId
    /\ Len(resp.body[1]) = 2
    /\ resp.body[1][1].id > resp.body[1][2].id
    /\ resp.body[1][1].userName = "Alice Johnson"
    /\ resp.body[1][1].date = DateOf(now)

\* the calls of the API that only read
ReadOps ==
    {"getToday", "getUserHistory", "getTeamStandups", "getSubmissionStatus",
     "getTeamSubmissionStatus"}

\* C21: a served getTodayStandup, getUserHistory, getTeamStandups,
\* hasSubmittedToday or getTeamSubmissionStatus leaves the rows and the id
\* counter as they were; getTodayStandup answers with the row of (userId,
\* date) or with not-found, and its answer is the same at every instant of
\* one UTC date over one store, so two calls on a date with no write between
\* them return the same.
C21_ReadsLeaveStoreUnchanged ==
    /\ [](\A u \in UserIds, t1, t2 \in 0..MaxNow :
            DateOf(t1) = DateOf(t2) =>
               GetTodayStandupAsync(standups, t1, u) = GetTodayStandupAsync(standups, t2, u))
    /\ [][resp'.op \in ReadOps /\ resp' # resp =>
             /\ standups' = standups
             /\ nextId' = nextId
             /\ pending' = pending
             /\ resp'.op = "getToday" =>
                   LET rows == RowsFor(standups, resp'.userId, DateOf(now))
                   IN IF rows = {}
                      THEN resp'.status = 404 /\ resp'.body = None
                      ELSE /\ resp'.status = 200
                           /\ \E s \in rows : resp'.body = Some(MapToDto(s))]_vars

\* getTodayStandup returned, at a later instant of the date, the row the
\* user created on that date, while the store holds a row of another user
C21_Witness ==
    /\ resp.op = "getToday" /\ resp.status = 200
    /\ resp.body[1].createdAt < now
    /\ resp.body[1].date = DateOf(now)
    /\ \E s \in standups : s.userId # resp.userId

\* C22: a served create or update of a user changes no row but the one of
\* (userId, today) and leaves at most one such row. Create is refused with
\* the conflict exactly when that row exists, so on a later date a valid
\* create of a seeded user is answered 201 with a new row of the new date;
\* update is answered not-found exactly when that row is missing, rows of
\* earlier dates notwithstanding; rows of earlier dates stay as they were.
C22_RowPerUserAndDay ==
    [][resp'.op \in {"create", "update"} /\ now' = now =>
          LET u == resp'.userId
              request == resp'.request[1]
              today == DateOf(now)
              mine == RowsFor(standups, u, today)
          IN /\ standups' \ RowsFor(standups', u, today) = standups \ mine
             /\ Cardinality(RowsFor(standups', u, today)) <= 1
             /\ resp'.op = "create" =>
                   IF mine # {}
                   THEN resp'.status = 409 /\ standups' = standups
                   ELSE /\ resp'.status # 409
                        /\ UserExists(u) /\ ValidCreate(request) =>
                              /\ resp'.status = 201
                              /\ \E s \in standups' :
                                    /\ standups' = standups \cup {s}
                                    /\ s.userId = u /\ s.date = today
                                    /\ \A o \in standups : o.id # s.id
             /\ resp'.op = "update" =>
                   IF mine = {}
                   THEN resp'.status = 404 /\ standups' = standups
                   ELSE /\ resp'.status = 200
                        /\ \E s \in standups' :
                              /\ standups' = (standups \ mine) \cup {s}
                              /\ s.userId = u /\ s.date = today]_vars

\* create was answered 201 with a row of today for a user whose row of an
\* earlier date had been updated on that date
C22_Witness ==
    /\ resp.op = "create" /\ resp.status = 201
    /\ resp.body[1].date = DateOf(now)
    /\ \E s \in standups :
          /\ s.userId = resp.userId /\ s.date < DateOf(now)
          /\ s.updatedAt # None

\* C28: a served update leaves the blockerStatus of every row as it was,
\* except that an update answered 200 whose body sets hasBlocker to false
\* clears the status of the row of (userId, today); so update never writes a
\* non-null status, and with hasBlocker true or absent a status of Critical
\* or Resolved stays.
C28_UpdateKeepsBlockerStatus ==
    [][resp'.op = "update" =>
          \A old \in standups :
             \E s \in standups' :
                /\ s.id = old.id
                /\ s.blockerStatus =
                      IF /\ resp'.status = 200
                         /\ old.userId = resp'.userId /\ old.date = DateOf(now)
                         /\ resp'.request[1].hasBlocker = Some(FALSE)
                      THEN None
                      ELSE old.blockerStatus]_vars

\* an update with hasBlocker true was answered 200 with the status still
\* Resolved
C28_Witness ==
    /\ resp.op = "update" /\ resp.status = 200
    /\ resp.request[1].hasBlocker = Some(TRUE)
    /\ resp.body[1].blockerStatus = Some("Resolved")
    /\ resp.body[1].updatedAt # None

\* C29: no two rows share an id; every step keeps every row, with its id,
\* userId, date and createdAt; and a user for whom HasSubmittedTodayAsync is
\* true still has it true after every step that stays on the same UTC date.
C29_RowsKeepIdentity ==
    /\ [](\A s1, s2 \in standups : s1.id = s2.id => s1 = s2)
    /\ [][/\ \A old \in standups :
               \E s \in standups' :
                  /\ s.id = old.id
                  /\ s.userId = old.userId
                  /\ s.date = old.date
                  /\ s.createdAt = old.createdAt
          /\ \A u \in UserIds :
               HasSubmittedTodayAsync(standups, now, u) /\ DateOf(now') = DateOf(now)
                  => HasSubmittedTodayAsync(standups', now', u)]_vars

\* the blocker status of a row of an earlier date was set, next to a row
\* that was updated on its date
C29_Witness ==
    /\ resp.op = "updateBlockerStatus" /\ resp.status = 200
    /\ resp.body[1].date < DateOf(now)
    /\ resp.body[1].createdAt < now
    /\ \E s \in standups : s.id # resp.body[1].id /\ s.updatedAt # None

\* a step in which a response or a network failure reaches the frontend
\* StandupService: no login or logout, no tick, and no request sent
ResponseStep ==
    /\ currentUser' = currentUser
    /\ now' = now
    /\ resp'.op # "none"
    /\ BagCardinality(http') <= BagCardinality(http)
    /\ <<http, resp, loading, error, todayStandup, hasSubmittedToday, history>>
          # <<http', resp', loading', error', todayStandup', hasSubmittedToday', history'>>

\* C23: when the response of a create or update is a failure, the request
\* leaves the requests in flight and none is sent in its place, error is the
\* error text of the server's body (for 409 and for the 400 of the missing
\* blocker description) or else the HTTP failure message, loading is false,
\* and todayStandup and hasSubmittedToday are as before.
C23_FailureSurfacedNotRetried ==
    [][ResponseStep /\ resp'.op \in {"create", "update"}
                    /\ resp'.status \notin {200, 201} =>
          LET req == HttpRequest(resp'.op, resp'.userId, resp'.request)
          IN /\ BagIn(req, http)
             /\ http' = http (-) SetToBag({req})
             /\ error' =
                   Some(CASE resp'.status = 409 ->
                               "Standup already submitted for today. Use update instead."
                          [] resp'.status = 400 ->
                               "Blocker description is required when Has Blocker is checked."
                          [] OTHER -> HttpFailure(resp'.status))
             /\ loading' = FALSE
             /\ todayStandup' = todayStandup
             /\ hasSubmittedToday' = hasSubmittedToday]_vars

\* a create was answered 409: the conflict text is shown, nothing is in
\* flight, and todayStandup is still null although the row exists
C23_Witness ==
    /\ resp.op = "create" /\ resp.status = 409
    /\ error = Some("Standup already submitted for today. Use update instead.")
    /\ ~loading
    /\ http = EmptyBag
    /\ todayStandup = None
    /\ RowsFor(standups, resp.userId, DateOf(now)) # {}

\* C24: a logout leaves the frontend standup state cleared: in the state
\* after AuthService.logout todayStandup is null, history is empty,
\* hasSubmittedToday is false and error is null.
C24_LogoutClearsStandupState ==
    [][currentUser # None /\ currentUser' = None =>
          /\ todayStandup' = None
          /\ history' = <<>>
          /\ hasSubmittedToday' = FALSE
          /\ error' = None]_vars

\* C25: for every stored value, loadStoredUser returns the sample user whose
\* id the value is the JSON text of, and null for every other value, for a
\* missing value and for text that does not parse, which it also removes;
\* whenever currentUser changes (login, logout, page load) the value then
\* stored loads as the new currentUser, the id after a login and null after
\* a logout; isLoggedIn is true exactly when currentUser is non-null.
C25_SessionRoundTrip ==
    /\ [](/\ \A user \in SAMPLE_USERS :
                loadStoredUser(Some(JSONStringify(user))).user = Some(user)
          /\ loadStoredUser(None).user = None
          /\ \A value \in StoredValues :
                LET loaded == loadStoredUser(Some(value))
                IN /\ \A user \in SAMPLE_USERS :
                         loaded.user = Some(user) <=> value = JSONStringify(user)
                   /\ loaded.user = None \/ loaded.user[1] \in SAMPLE_USERS
                   /\ value \in {<<"x">>, <<"0", "1">>} =>
                         loaded.user = None /\ loaded.storage = None
          /\ isLoggedIn <=> currentUser # None)
    /\ [][currentUser' # currentUser =>
             /\ loadStoredUser(storage').user = currentUser'
             /\ currentUser' # None => storage' = Some(JSONStringify(currentUser'[1]))
             /\ currentUser' = None =>
                   storage' = None \/ storage' \in {Some(value) : value \in StoredValues}]_vars

\* a second user is logged in, and their id stored, after the session of
\* the first, whose submission status was the last response
C25_Witness ==
    /\ resp.op = "getSubmissionStatus" /\ resp.userId # 2
    /\ currentUser = Some(2)
    /\ storage = Some(<<"2">>)
    /\ isLoggedIn

\* the requests a step sends
Sent == {req \in BagToSet(http') : CopiesIn(req, http') > CopiesIn(req, http)}

\* C26 as stated: a submit sends update when todayStandup is non-null and
\* create when it is null; within a session todayStandup, once non-null,
\* stays non-null, so that every later submit sends update; and no create is
\* sent while the store holds the row of (logged-in user, today).
C26_SubmitNeverCreatesOverRow ==
    [][/\ \A req \in Sent :
             req.op \in {"create", "update"} =>
                /\ req.op = "update" <=> todayStandup # None
                /\ req.op = "create" =>
                      RowsFor(standups, req.userId, DateOf(now)) = {}
       /\ todayStandup # None /\ currentUser # None /\ currentUser' = currentUser =>
             todayStandup' # None]_vars

\* C26, amended: a submit sends one request, for the logged-in user: update
\* when todayStandup is non-null and create when it is null, whether or not
\* the store holds the row of today; todayStandup, once non-null, becomes
\* null only when a getTodayStandup is answered 404, so until then every
\* submit sends update.
C26_SubmitFollowsTodayStandup ==
    [][/\ \A req \in Sent :
             req.op \in {"create", "update"} =>
                /\ req.op = "update" <=> todayStandup # None
                /\ currentUser = Some(req.userId)
                /\ http' = http (+) SetToBag({req})
       /\ todayStandup # None /\ todayStandup' = None =>
             /\ resp'.op = "getToday" /\ resp'.status = 404
             /\ BagCardinality(http') < BagCardinality(http)]_vars

\* a create is in flight while the store holds the user's row of today: the
\* response of the create that stored it was lost, and todayStandup is null
C26_Witness ==
    /\ todayStandup = None
    /\ \E req \in BagToSet(http) :
          /\ req.op = "create"
          /\ currentUser = Some(req.userId)
          /\ RowsFor(standups, req.userId, DateOf(now)) # {}

\* C27: in every state loading is true exactly when at least one
\* getTodayStandup, getHistory, create or update request is in flight,
\* overlapping requests included.
C27_LoadingWhileInFlight ==
    loading <=>
       \E req \in BagToSet(http) :
          req.op \in {"getToday", "getUserHistory", "create", "update"}

\* C30: in every state, when todayStandup is non-null, hasSubmittedToday is
\* true and todayStandup is a standup of the user logged in.
C30_TodayStandupOfCurrentUser ==
    todayStandup # None =>
       /\ hasSubmittedToday
       /\ currentUser = Some(todayStandup[1].userId)

====
